---- MODULE Spec2Model ----
(***************************************************************************)
(* Key Combat AI: progression (gacha draw, levels, save record) and the    *)
(* key-press combat session of js/game.js, as a state machine.             *)
(*                                                                         *)
(* js/game.js holds three successive revisions of the script one after the *)
(* other; the model follows the revision at lines 555-1320, the one with   *)
(* the CARD_REVEAL state, getLeveledStats and the save reconciliation.     *)
(***************************************************************************)
EXTENDS Integers, Sequences, FiniteSets, TLC

VARIABLES
    pc,               \* "boot": script not run; "loaded": script run; "running": window.onload done
    store,            \* the document under localStorage key 'kca_save'
    saveData,         \* the in-memory save record
    currentState,     \* GAME_STATES value
    currentReveal,    \* the card being revealed, or Null
    lastGachaResult,  \* the last dismissed reveal, or Null
    playerHeroes,     \* the run's Hero objects
    currentEnemies,   \* the run's Enemy objects
    keyState,         \* keyState[k]: truthy or not
    loopAlive,        \* a gameLoop frame is scheduled
    uncaught,         \* the last handler ended with an exception nobody caught
    writes,           \* history: outcome of the write of each draw so far
    runs              \* history: number of runs started so far, counted up to MaxRuns

vars == <<pc, store, saveData, currentState, currentReveal, lastGachaResult,
          playerHeroes, currentEnemies, keyState, loopAlive, uncaught, writes, runs>>

-----------------------------------------------------------------------------
(* Bounds *)

MaxDraws == 1          \* draws per behaviour
MaxStoredLen == 1      \* length of the lists of StoredLists
MaxStoredLevel == 1    \* largest level of the mappings of StoredLevels

\* the history counter of runs stops counting here
MaxRuns == 2

\* draws per behaviour where a failed write is followed by further draws
MaxRepairDraws == 2

-----------------------------------------------------------------------------
(* JavaScript values *)

Null == [null |-> TRUE]
Undefined == [undefined |-> TRUE]

Max(a, b) == IF a >= b THEN a ELSE b

Includes(seq, x) == \E i \in 1..Len(seq) : seq[i] = x

Filter(seq, keep) == SelectSeq(seq, LAMBDA x : x \in keep)

\* obj[k] || d for a numeric property
PropOr(obj, k, d) == IF k \in DOMAIN obj /\ obj[k] # 0 THEN obj[k] ELSE d

\* obj[k] = v
SetProp(obj, k, v) == [x \in (DOMAIN obj) \cup {k} |-> IF x = k THEN v ELSE obj[x]]

\* delete obj[k] for every k outside keep
DeleteAllBut(obj, keep) == [x \in (DOMAIN obj) \cap keep |-> obj[x]]

ToLowerCase(k) == CASE k = "Enter" -> "enter"
                    [] k = "G" -> "g"
                    [] OTHER -> k

-----------------------------------------------------------------------------
(* Content catalog *)

charactersData == <<
    [id |-> "hero_fire_knight",  baseHP |-> 100, baseAttack |-> 20, key |-> "e", ultChargeNeeded |-> 5, image |-> FALSE],
    [id |-> "hero_healer",       baseHP |-> 80,  baseAttack |-> 10, key |-> "r", ultChargeNeeded |-> 4, image |-> FALSE],
    [id |-> "hero_shadow_rogue", baseHP |-> 70,  baseAttack |-> 25, key |-> "t", ultChargeNeeded |-> 6, image |-> FALSE],
    [id |-> "hero_azal",         baseHP |-> 90,  baseAttack |-> 22, key |-> "y", ultChargeNeeded |-> 5, image |-> TRUE],
    [id |-> "hero_fyra",         baseHP |-> 85,  baseAttack |-> 15, key |-> "u", ultChargeNeeded |-> 4, image |-> TRUE],
    [id |-> "hero_lucien",       baseHP |-> 95,  baseAttack |-> 23, key |-> "i", ultChargeNeeded |-> 6, image |-> TRUE],
    [id |-> "hero_raeni",        baseHP |-> 75,  baseAttack |-> 12, key |-> "o", ultChargeNeeded |-> 5, image |-> TRUE],
    [id |-> "hero_velra",        baseHP |-> 100, baseAttack |-> 18, key |-> "p", ultChargeNeeded |-> 5, image |-> TRUE],
    [id |-> "hero_zhae",         baseHP |-> 85,  baseAttack |-> 26, key |-> "a", ultChargeNeeded |-> 6, image |-> TRUE] >>

enemiesData == <<
    [id |-> "enemy_goblin",   hp |-> 50, attackPower |-> 5],
    [id |-> "enemy_orc",      hp |-> 80, attackPower |-> 8],
    [id |-> "enemy_skeleton", hp |-> 40, attackPower |-> 6] >>

GAME_STATES == [MENU |-> "menu", MAP |-> "map", COMBAT |-> "combat", CARD_REVEAL |-> "card_reveal"]

availableHeroes_All == charactersData

availableHeroes == SelectSeq(charactersData, LAMBDA h : h.image)

validHeroIds == {availableHeroes[i].id : i \in 1..Len(availableHeroes)}

CatalogIds == {charactersData[i].id : i \in 1..Len(charactersData)}

\* charactersData.find((h) => h.id === id)
FindHero(id) == charactersData[CHOOSE i \in 1..Len(charactersData) :
                    /\ charactersData[i].id = id
                    /\ \A j \in 1..(i - 1) : charactersData[j].id # id]

-----------------------------------------------------------------------------
(* Level scaling *)

LEVEL_UP_INCREMENTS == [hp |-> 10, atk |-> 2]

getLeveledStats_ThresholdByLevel(data, level) ==
    [hp |-> data.baseHP + (level - 1) * LEVEL_UP_INCREMENTS.hp,
     atk |-> data.baseAttack + (level - 1) * LEVEL_UP_INCREMENTS.atk,
     ultCharge |-> Max(1, data.ultChargeNeeded - (level - 1))]

getLeveledStats(data, level) ==
    [hp |-> data.baseHP + (level - 1) * LEVEL_UP_INCREMENTS.hp,
     atk |-> data.baseAttack + (level - 1) * LEVEL_UP_INCREMENTS.atk,
     ultCharge |-> data.ultChargeNeeded]

-----------------------------------------------------------------------------
(* Save store.  A stored document is the text under 'kca_save': absent,    *)
(* text that is not JSON, JSON for a scalar, or JSON for an object whose   *)
(* properties are those of "value".                                        *)

DefaultSave == [unlockedHeroes |-> <<>>, heroLevels |-> <<>>, demonSouls |-> 0]

\* JSON.stringify(saveData)
JSON_stringify(rec) ==
    [kind |-> "object",
     value |-> [unlockedHeroes |-> rec.unlockedHeroes,
                heroLevels |-> rec.heroLevels,
                demonSouls |-> rec.demonSouls]]

\* JSON.parse(localStorage.getItem('kca_save')): getItem gives null for an
\* absent key and JSON.parse(null) is null; text that is not JSON throws.
JSON_parse(doc) ==
    CASE doc.kind = "absent"    -> [threw |-> FALSE, type |-> "null",   value |-> <<>>]
      [] doc.kind = "malformed" -> [threw |-> TRUE,  type |-> "none",   value |-> <<>>]
      [] doc.kind = "scalar"    -> [threw |-> FALSE, type |-> "number", value |-> <<>>]
      [] doc.kind = "object"    -> [threw |-> FALSE, type |-> "object", value |-> doc.value]

WithDefaults_ResetLevels(saved) ==
    [unlockedHeroes |-> IF "unlockedHeroes" \in DOMAIN saved THEN saved.unlockedHeroes ELSE <<>>,
     heroLevels     |-> <<>>,
     demonSouls     |-> PropOr(saved, "demonSouls", 0)]

\* saved.f = saved.f || d, for the three fields
WithDefaults(saved) ==
    [unlockedHeroes |-> IF "unlockedHeroes" \in DOMAIN saved THEN saved.unlockedHeroes ELSE <<>>,
     heroLevels     |-> IF "heroLevels" \in DOMAIN saved THEN saved.heroLevels ELSE <<>>,
     demonSouls     |-> PropOr(saved, "demonSouls", 0)]

loadSaveData_NoCatch(doc) ==
    LET p == JSON_parse(doc) IN
    IF p.threw THEN [threw |-> TRUE, value |-> Undefined]
    ELSE IF p.type = "object" THEN [threw |-> FALSE, value |-> WithDefaults(p.value)]
    ELSE [threw |-> FALSE, value |-> DefaultSave]

loadSaveData(doc) ==
    LET p == JSON_parse(doc) IN
    IF ~p.threw /\ p.type = "object"
    THEN [threw |-> FALSE, value |-> WithDefaults(p.value)]
    ELSE [threw |-> FALSE, value |-> DefaultSave]

\* localStorage.setItem: the store may reject the write (quota)
setItem(old, text, writeOk) ==
    IF writeOk THEN [threw |-> FALSE, store |-> text]
    ELSE [threw |-> TRUE, store |-> old]

saveGameData_NoCatch(rec, old, writeOk) ==
    setItem(old, JSON_stringify(rec), writeOk)

saveGameData_ListOnly(rec, old, writeOk) ==
    LET text == IF old.kind = "object" /\ "unlockedHeroes" \in DOMAIN old.value
                THEN [kind |-> "object",
                      value |-> [old.value EXCEPT !.unlockedHeroes = rec.unlockedHeroes]]
                ELSE JSON_stringify(rec)
        w == setItem(old, text, writeOk)
    IN  [threw |-> FALSE, store |-> w.store]

saveGameData(rec, old, writeOk) ==
    LET w == setItem(old, JSON_stringify(rec), writeOk) IN
    [threw |-> FALSE, store |-> w.store]

Reconcile_ListOnly(rec) ==
    [rec EXCEPT !.unlockedHeroes = Filter(@, validHeroIds)]

\* lines 910-916: prune ids that are not heroes with art
Reconcile(rec) ==
    [rec EXCEPT !.unlockedHeroes = Filter(@, validHeroIds),
                !.heroLevels = DeleteAllBut(@, validHeroIds)]

-----------------------------------------------------------------------------
(* Units *)

\* new Hero(data)
NewHero(data) ==
    [id |-> data.id, key |-> ToLowerCase(data.key), baseHP |-> data.baseHP,
     baseAttack |-> data.baseAttack, ultChargeNeeded |-> data.ultChargeNeeded,
     level |-> 1, currentHP |-> data.baseHP, ultMeter |-> 0]

applyLeveledStats_ThresholdByLevel(hero, data) ==
    LET stats == getLeveledStats(data, hero.level) IN
    [hero EXCEPT !.baseHP = stats.hp, !.baseAttack = stats.atk,
                 !.ultChargeNeeded = Max(1, stats.ultCharge - (hero.level - 1)),
                 !.currentHP = stats.hp]

applyLeveledStats_KeepCurrentHP(hero, data) ==
    LET stats == getLeveledStats(data, hero.level) IN
    [hero EXCEPT !.baseHP = stats.hp, !.baseAttack = stats.atk,
                 !.ultChargeNeeded = stats.ultCharge]

applyLeveledStats(hero, data) ==
    LET stats == getLeveledStats(data, hero.level) IN
    [hero EXCEPT !.baseHP = stats.hp, !.baseAttack = stats.atk,
                 !.ultChargeNeeded = stats.ultCharge, !.currentHP = stats.hp]

\* new Enemy(data)
NewEnemy(data) == [id |-> data.id, hp |-> data.hp, attackPower |-> data.attackPower]

Enemy_takeDamage_NoFloor(enemy, amount) == [enemy EXCEPT !.hp = @ - amount]

Enemy_takeDamage(enemy, amount) ==
    [enemy EXCEPT !.hp = IF @ - amount < 0 THEN 0 ELSE @ - amount]

Enemy_isAlive_AtZero(enemy) == enemy.hp >= 0

Enemy_isAlive(enemy) == enemy.hp > 0

Hero_takeDamage(hero, amount) ==
    [hero EXCEPT !.currentHP = IF @ - amount < 0 THEN 0 ELSE @ - amount]

Hero_attack_AutoUlt(hero, target) ==
    LET a == [hero |-> [hero EXCEPT !.ultMeter = @ + 1],
              target |-> Enemy_takeDamage(target, hero.baseAttack * hero.level)]
    IN  IF a.hero.ultMeter >= a.hero.ultChargeNeeded
        THEN [hero |-> [a.hero EXCEPT !.ultMeter = 0],
              target |-> Enemy_takeDamage(a.target, (a.hero.baseAttack * 2) * a.hero.level)]
        ELSE a

Hero_attack_NoLevel(hero, target) ==
    [hero |-> [hero EXCEPT !.ultMeter = @ + 1],
     target |-> Enemy_takeDamage(target, hero.baseAttack)]

Hero_attack(hero, target) ==
    [hero |-> [hero EXCEPT !.ultMeter = @ + 1],
     target |-> Enemy_takeDamage(target, hero.baseAttack * hero.level)]

\* chargePercent is a rational pct/100
Hero_tryUlt_AtThresholdOnly(hero, target, pct) ==
    IF hero.ultMeter = hero.ultChargeNeeded
    THEN [hero |-> [hero EXCEPT !.ultMeter = 0],
          target |-> Enemy_takeDamage(target, ((hero.baseAttack * 2) * hero.level * pct) \div 100)]
    ELSE [hero |-> hero, target |-> target]

Hero_tryUlt(hero, target, pct) ==
    IF hero.ultMeter >= hero.ultChargeNeeded
    THEN [hero |-> [hero EXCEPT !.ultMeter = 0],
          target |-> Enemy_takeDamage(target, ((hero.baseAttack * 2) * hero.level * pct) \div 100)]
    ELSE [hero |-> hero, target |-> target]

-----------------------------------------------------------------------------
(* The script's globals as one record, so that a handler is a function     *)
(* from globals to globals and listeners compose in registration order.    *)

Globals ==
    [store |-> store, saveData |-> saveData, currentState |-> currentState,
     currentReveal |-> currentReveal, lastGachaResult |-> lastGachaResult,
     playerHeroes |-> playerHeroes, currentEnemies |-> currentEnemies,
     keyState |-> keyState, uncaught |-> uncaught]

Becomes(s) ==
    /\ store' = s.store
    /\ saveData' = s.saveData
    /\ currentState' = s.currentState
    /\ currentReveal' = s.currentReveal
    /\ lastGachaResult' = s.lastGachaResult
    /\ playerHeroes' = s.playerHeroes
    /\ currentEnemies' = s.currentEnemies
    /\ keyState' = s.keyState
    /\ uncaught' = s.uncaught

\* line 880
NewLevel_Keep(wasUnlocked, oldLevel) == IF wasUnlocked THEN Max(1, oldLevel) ELSE 1

NewLevel(wasUnlocked, oldLevel) == IF wasUnlocked THEN oldLevel + 1 ELSE 1

\* line 899
RevealOldStats_Always(wasUnlocked, oldStats) == oldStats

RevealOldStats(wasUnlocked, oldStats) == IF wasUnlocked THEN oldStats ELSE Null

\* lines 882-884
PushIfNew_Always(list, wasUnlocked, heroId) == Append(list, heroId)

PushIfNew(list, wasUnlocked, heroId) == IF wasUnlocked THEN list ELSE Append(list, heroId)

\* gachaDraw with Math.random() giving index (1-based here) and the store
\* accepting the write or not
gachaDraw(s, index, writeOk) ==
    LET heroData == availableHeroes[index]
        heroId == heroData.id
        wasUnlocked == Includes(s.saveData.unlockedHeroes, heroId)
        oldLevel == PropOr(s.saveData.heroLevels, heroId, 0)
        oldStats == getLeveledStats(heroData, Max(1, oldLevel))
        newLevel == NewLevel(wasUnlocked, oldLevel)
        sd == [s.saveData EXCEPT
                 !.heroLevels = SetProp(@, heroId, newLevel),
                 !.unlockedHeroes = PushIfNew(@, wasUnlocked, heroId)]
        newStats == getLeveledStats(heroData, newLevel)
        w == saveGameData(sd, s.store, writeOk)
    IN  IF w.threw
        THEN [s EXCEPT !.saveData = sd, !.uncaught = TRUE]
        ELSE [s EXCEPT !.saveData = sd,
                       !.store = w.store,
                       !.currentReveal = [hero |-> heroData,
                                          isNew |-> ~wasUnlocked,
                                          oldStats |-> RevealOldStats(wasUnlocked, oldStats),
                                          newStats |-> newStats,
                                          level |-> newLevel],
                       !.currentState = GAME_STATES.CARD_REVEAL]

\* heroIds of startNewRun
PartyIds_AnyUnlocked(rec) ==
    IF Len(rec.unlockedHeroes) >= 1
    THEN SubSeq(rec.unlockedHeroes, 1, IF Len(rec.unlockedHeroes) < 3 THEN Len(rec.unlockedHeroes) ELSE 3)
    ELSE [i \in 1..(IF Len(availableHeroes) < 3 THEN Len(availableHeroes) ELSE 3) |->
             availableHeroes[i].id]

PartyIds(rec) ==
    IF Len(rec.unlockedHeroes) >= 3
    THEN SubSeq(rec.unlockedHeroes, 1, 3)
    ELSE [i \in 1..(IF Len(availableHeroes) < 3 THEN Len(availableHeroes) ELSE 3) |->
             availableHeroes[i].id]

startNewRun_KeepEnemies(s) ==
    LET heroIds == PartyIds(s.saveData)
        build(id) == LET data == FindHero(id)
                         hero == [NewHero(data) EXCEPT !.level = PropOr(s.saveData.heroLevels, id, 1)]
                     IN  applyLeveledStats(hero, data)
    IN  [s EXCEPT !.playerHeroes = [i \in 1..Len(heroIds) |-> build(heroIds[i])],
                  !.currentEnemies = IF Len(@) > 0 THEN @
                                     ELSE IF Len(enemiesData) > 0 THEN <<NewEnemy(enemiesData[1])>>
                                     ELSE <<>>,
                  !.currentState = GAME_STATES.COMBAT]

startNewRun(s) ==
    LET heroIds == PartyIds(s.saveData)
        build(id) == LET data == FindHero(id)
                         hero == [NewHero(data) EXCEPT !.level = PropOr(s.saveData.heroLevels, id, 1)]
                     IN  applyLeveledStats(hero, data)
    IN  [s EXCEPT !.playerHeroes = [i \in 1..Len(heroIds) |-> build(heroIds[i])],
                  !.currentEnemies = IF Len(enemiesData) > 0 THEN <<NewEnemy(enemiesData[1])>> ELSE <<>>,
                  !.currentState = GAME_STATES.COMBAT]

\* the for loop of updateCombat from hero i on
RECURSIVE HeroesAct(_, _)
HeroesAct(s, i) ==
    IF i > Len(s.playerHeroes) THEN s
    ELSE LET hero == s.playerHeroes[i] IN
         IF s.keyState[hero.key]
         THEN LET r == Hero_attack(hero, s.currentEnemies[1]) IN
              HeroesAct([s EXCEPT !.playerHeroes[i] = r.hero,
                                  !.currentEnemies[1] = r.target,
                                  !.keyState[hero.key] = FALSE], i + 1)
         ELSE HeroesAct(s, i + 1)

updateCombat_Retaliates(s) ==
    LET t == HeroesAct(s, 1) IN
    IF Len(t.currentEnemies) > 0 /\ ~Enemy_isAlive(t.currentEnemies[1])
    THEN [t EXCEPT !.currentState = GAME_STATES.MENU]
    ELSE IF Len(t.currentEnemies) > 0 /\ Len(t.playerHeroes) > 0
    THEN [t EXCEPT !.playerHeroes[1] = Hero_takeDamage(@, t.currentEnemies[1].attackPower)]
    ELSE t

updateCombat_CheckFirst(s) ==
    IF Len(s.currentEnemies) > 0 /\ ~Enemy_isAlive(s.currentEnemies[1])
    THEN [s EXCEPT !.currentState = GAME_STATES.MENU]
    ELSE HeroesAct(s, 1)

updateCombat(s) ==
    LET t == HeroesAct(s, 1) IN
    IF Len(t.currentEnemies) > 0 /\ ~Enemy_isAlive(t.currentEnemies[1])
    THEN [t EXCEPT !.currentState = GAME_STATES.MENU]
    ELSE t

update(s) == IF s.currentState = GAME_STATES.COMBAT THEN updateCombat(s) ELSE s

\* draw() throws exactly in drawCardReveal, reading oldStats.hp of a null oldStats
drawThrows(s) ==
    /\ s.currentState = GAME_STATES.CARD_REVEAL
    /\ s.currentReveal.oldStats = Null

\* keydown listener of lines 820-822
OnKeyDownState(s, key) == [s EXCEPT !.keyState[ToLowerCase(key)] = TRUE]

\* keydown listener of lines 919-932
OnKeyDownGacha_AnyState(s, key, index, writeOk) ==
    IF ToLowerCase(key) = "g"
    THEN gachaDraw(s, index, writeOk)
    ELSE IF s.currentState = GAME_STATES.CARD_REVEAL /\ key = "Enter"
    THEN [s EXCEPT !.lastGachaResult = [hero |-> s.currentReveal.hero,
                                        level |-> s.currentReveal.level,
                                        isNew |-> s.currentReveal.isNew],
                   !.currentReveal = Null,
                   !.currentState = GAME_STATES.MENU]
    ELSE s

OnKeyDownGacha(s, key, index, writeOk) ==
    IF s.currentState = GAME_STATES.MENU /\ ToLowerCase(key) = "g"
    THEN gachaDraw(s, index, writeOk)
    ELSE IF s.currentState = GAME_STATES.CARD_REVEAL /\ key = "Enter"
    THEN [s EXCEPT !.lastGachaResult = [hero |-> s.currentReveal.hero,
                                        level |-> s.currentReveal.level,
                                        isNew |-> s.currentReveal.isNew],
                   !.currentReveal = Null,
                   !.currentState = GAME_STATES.MENU]
    ELSE s

\* keydown listener registered by window.onload, lines 1294-1298
OnKeyDownStart(s, key) ==
    IF s.currentState = GAME_STATES.MENU /\ key = "Enter"
    THEN startNewRun(s)
    ELSE s

-----------------------------------------------------------------------------
(* Inputs *)

\* keys of the session: draw (either case), start / dismiss, two hero keys
InputKeys == {"g", "G", "Enter", "y", "p"}

\* keys that reach the progression engine only
MenuKeys == {"g", "G", "Enter"}

KeyNames == {ToLowerCase(k) : k \in InputKeys}
              \cup {ToLowerCase(charactersData[i].key) : i \in 1..Len(charactersData)}

\* ids of stored documents: one that was never in the catalog, one catalog
\* hero without art, one hero with art
StoredIds == {"ghost", "hero_healer", "hero_azal"}

StoredLists == UNION {[1..n -> StoredIds] : n \in 0..MaxStoredLen}

StoredLevels == UNION {[S -> 1..MaxStoredLevel] : S \in SUBSET StoredIds}

StoredSouls == {0, 7}

Fields == {"unlockedHeroes", "heroLevels", "demonSouls"}

\* the object with the fields of P only
Object(P, u, l, d) ==
    [f \in P |-> CASE f = "unlockedHeroes" -> u
                    [] f = "heroLevels" -> l
                    [] f = "demonSouls" -> d]

\* lists that interleave stale ids with two heroes that have art
MixedLists == {<<"hero_fyra", "ghost", "hero_azal">>, <<"hero_azal", "hero_healer", "hero_fyra">>}

\* every list with every level mapping; every choice of missing fields and of
\* balance for one list and mapping; the mixed lists
StoredObjects ==
    {Object(Fields, u, l, 0) : u \in StoredLists, l \in StoredLevels}
      \cup {Object(P, <<"hero_azal", "ghost">>, [hero_azal |-> 2, ghost |-> 1], d) :
               P \in SUBSET Fields, d \in StoredSouls}
      \cup {Object(Fields, u, [hero_azal |-> 1, ghost |-> 2, hero_fyra |-> 2], 0) :
               u \in MixedLists}

StoredDocs ==
    {[kind |-> "absent"], [kind |-> "malformed"], [kind |-> "scalar"]}
      \cup {[kind |-> "object", value |-> v] : v \in StoredObjects}

-----------------------------------------------------------------------------
(* Actions *)

\* documents the session specification starts from
SessionDocs ==
    {[kind |-> "absent"],
     [kind |-> "object",
      value |-> [unlockedHeroes |-> <<"hero_fyra", "ghost", "hero_azal">>,
                 heroLevels |-> [hero_fyra |-> 1, ghost |-> 3, hero_azal |-> 2],
                 demonSouls |-> 0]],
     [kind |-> "object",
      value |-> [unlockedHeroes |-> <<"hero_velra", "hero_raeni", "hero_azal">>,
                 heroLevels |-> [hero_velra |-> 2, hero_raeni |-> 1, hero_azal |-> 1],
                 demonSouls |-> 0]]}

Boot(docs) ==
    /\ pc = "boot"
    /\ store \in docs
    /\ saveData = Undefined
    /\ currentState = GAME_STATES.MENU
    /\ currentReveal = Null
    /\ lastGachaResult = Null
    /\ playerHeroes = <<>>
    /\ currentEnemies = <<>>
    /\ keyState = [k \in KeyNames |-> FALSE]
    /\ loopAlive = FALSE
    /\ uncaught = FALSE
    /\ writes = <<>>
    /\ runs = 0

Init == Boot(SessionDocs)

InitSave == Boot(StoredDocs)

\* the script body: load, reconcile, register the first two keydown listeners
ScriptLoad ==
    /\ pc = "boot"
    /\ LET l == loadSaveData(store) IN
       IF l.threw
       THEN /\ uncaught' = TRUE
            /\ UNCHANGED saveData
       ELSE /\ uncaught' = FALSE
            /\ saveData' = Reconcile(l.value)
    /\ pc' = "loaded"
    /\ UNCHANGED <<store, currentState, currentReveal, lastGachaResult,
                   playerHeroes, currentEnemies, keyState, loopAlive, writes, runs>>

\* window.onload: menu state, the Enter listener, the first frame request
WindowOnload ==
    /\ pc = "loaded"
    /\ ~uncaught
    /\ pc' = "running"
    /\ currentState' = GAME_STATES.MENU
    /\ loopAlive' = TRUE
    /\ UNCHANGED <<store, saveData, currentReveal, lastGachaResult, playerHeroes,
                   currentEnemies, keyState, uncaught, writes, runs>>

Draws(s, key) == s.currentState = GAME_STATES.MENU /\ ToLowerCase(key) = "g"

\* a key-down event, delivered to the keydown listeners in registration
\* order; at most maxDraws draws are followed
KeyDownUpTo(keys, maxDraws) ==
    /\ pc \in {"loaded", "running"}
    /\ ~(pc = "loaded" /\ uncaught)
    /\ \E key \in keys :
         LET s0 == [Globals EXCEPT !.uncaught = FALSE]
             s1 == OnKeyDownState(s0, key)
         IN  \E index \in (IF Draws(s1, key) THEN 1..Len(availableHeroes) ELSE {1}),
                writeOk \in (IF Draws(s1, key) THEN BOOLEAN ELSE {TRUE}) :
               LET s2 == OnKeyDownGacha(s1, key, index, writeOk)
                   s3 == IF pc = "running" THEN OnKeyDownStart(s2, key) ELSE s2
               IN  /\ Draws(s1, key) => Len(writes) < maxDraws
                   /\ Becomes(s3)
                   /\ writes' = IF Draws(s1, key)
                                THEN Append(writes, IF writeOk THEN "ok" ELSE "failed")
                                ELSE writes
                   /\ runs' = IF s2.currentState = GAME_STATES.MENU /\ s3.currentState = GAME_STATES.COMBAT
                              THEN (IF runs < MaxRuns THEN runs + 1 ELSE runs)
                              ELSE runs
    /\ UNCHANGED <<pc, loopAlive>>

KeyDown(keys) == KeyDownUpTo(keys, MaxDraws)

KeyUp(keys) ==
    /\ pc \in {"loaded", "running"}
    /\ ~(pc = "loaded" /\ uncaught)
    /\ \E key \in keys :
         keyState' = [keyState EXCEPT ![ToLowerCase(key)] = FALSE]
    /\ uncaught' = FALSE
    /\ UNCHANGED <<pc, store, saveData, currentState, currentReveal, lastGachaResult,
                   playerHeroes, currentEnemies, loopAlive, writes, runs>>

\* one frame: update(dt); draw(); requestAnimationFrame(gameLoop)
GameLoop ==
    /\ pc = "running"
    /\ loopAlive
    /\ LET s == update([Globals EXCEPT !.uncaught = FALSE]) IN
       /\ Becomes([s EXCEPT !.uncaught = drawThrows(s)])
       /\ loopAlive' = ~drawThrows(s)
    /\ UNCHANGED <<pc, writes, runs>>

Next == ScriptLoad \/ WindowOnload \/ KeyDown(InputKeys) \/ KeyUp(InputKeys) \/ GameLoop

Spec == Init /\ [][Next]_vars

\* the progression engine under every stored document: the same program,
\* with the player pressing only the draw and Enter keys
NextSave == ScriptLoad \/ WindowOnload \/ KeyDown(MenuKeys) \/ KeyUp(MenuKeys) \/ GameLoop

SaveSpec == InitSave /\ [][NextSave]_vars

-----------------------------------------------------------------------------
(* Vocabulary of the properties *)

Last(seq) == seq[Len(seq)]

\* a step in which gachaDraw ran
DrawStep == Len(writes') = Len(writes) + 1

\* the level the record holds for id, 0 when it holds none
LevelOf(rec, id) == IF id \in DOMAIN rec.heroLevels THEN rec.heroLevels[id] ELSE 0

UnlockedIds(rec) == {rec.unlockedHeroes[i] : i \in 1..Len(rec.unlockedHeroes)}

AllWritesOk == \A i \in 1..Len(writes) : writes[i] = "ok"

-----------------------------------------------------------------------------
(* C1: a draw of a hero whose id is not in the unlocked list reports       *)
(* isNew = true, level 1 and no oldStats, stores level 1 for the id and    *)
(* appends the id to the unlocked list.                                    *)

C1_FirstDraw ==
    [][DrawStep =>
         /\ currentReveal' # Null
         /\ LET r == currentReveal'
                id == r.hero.id
            IN  ~Includes(saveData.unlockedHeroes, id) =>
                  /\ r.isNew
                  /\ r.level = 1
                  /\ r.oldStats = Null
                  /\ LevelOf(saveData', id) = 1
                  /\ saveData'.unlockedHeroes = Append(saveData.unlockedHeroes, id)]_vars

\* a new hero is on the reveal screen, stored at level 1 at the end of the list
C1_Witness ==
    /\ currentState = GAME_STATES.CARD_REVEAL
    /\ currentReveal # Null
    /\ currentReveal.isNew
    /\ currentReveal.oldStats = Null
    /\ LevelOf(saveData, currentReveal.hero.id) = 1
    /\ Last(saveData.unlockedHeroes) = currentReveal.hero.id

(* C2: a draw of a hero that is unlocked at level L >= 1 reports           *)
(* isNew = false, level L+1, oldStats of level max(1, L) and newStats of   *)
(* level L+1, stores L+1 and leaves the unlocked list as it was.           *)

C2_RepeatDraw ==
    [][DrawStep =>
         /\ currentReveal' # Null
         /\ LET r == currentReveal'
                id == r.hero.id
                L == LevelOf(saveData, id)
            IN  (Includes(saveData.unlockedHeroes, id) /\ L >= 1) =>
                  /\ ~r.isNew
                  /\ r.level = L + 1
                  /\ r.oldStats = getLeveledStats(r.hero, Max(1, L))
                  /\ r.newStats = getLeveledStats(r.hero, L + 1)
                  /\ LevelOf(saveData', id) = L + 1
                  /\ saveData'.unlockedHeroes = saveData.unlockedHeroes]_vars

\* a hero drawn for at least the second time is on the reveal screen
C2_Witness ==
    /\ currentState = GAME_STATES.CARD_REVEAL
    /\ currentReveal # Null
    /\ ~currentReveal.isNew
    /\ currentReveal.level = 3
    /\ currentReveal.oldStats = getLeveledStats(currentReveal.hero, 2)
    /\ LevelOf(saveData, currentReveal.hero.id) = 3

(* C3: from the record of load and reconciliation on, no step lowers the   *)
(* level stored for a hero id, and a draw raises the drawn hero's level by *)
(* exactly 1 (from none to 1 on its first draw).                           *)

C3_LevelsNeverDecrease ==
    [][pc # "boot" =>
         /\ \A id \in validHeroIds : LevelOf(saveData', id) >= LevelOf(saveData, id)
         /\ DrawStep =>
              /\ currentReveal' # Null
              /\ LevelOf(saveData', currentReveal'.hero.id)
                   = LevelOf(saveData, currentReveal'.hero.id) + 1]_vars

(* C4: in every state after load and reconciliation, the keys of the level *)
(* mapping are exactly the ids of the unlocked list, and each of them is   *)
(* the id of a catalog hero with a portrait.                               *)

C4_SaveRecordInvariant ==
    pc # "boot" =>
      /\ DOMAIN saveData.heroLevels = UnlockedIds(saveData)
      /\ UnlockedIds(saveData) \subseteq validHeroIds

(* C5: after load and reconciliation no id other than those of catalog     *)
(* heroes with a portrait is in the unlocked list or a key of the level    *)
(* mapping, and the entries of the valid ids are those of the stored       *)
(* record, in the same order and with the same levels.                     *)

StoredList == IF "unlockedHeroes" \in DOMAIN store.value THEN store.value.unlockedHeroes ELSE <<>>

StoredLevelMap == IF "heroLevels" \in DOMAIN store.value THEN store.value.heroLevels ELSE <<>>

\* kept is full with exactly the entries outside "valid" deleted
DeletesExactly(full, kept, valid) ==
    /\ Len(kept) <= Len(full)
    /\ \E f \in [1..Len(kept) -> 1..Len(full)] :
         /\ \A i, j \in 1..Len(kept) : i < j => f[i] < f[j]
         /\ \A i \in 1..Len(kept) : kept[i] = full[f[i]] /\ kept[i] \in valid
         /\ \A n \in 1..Len(full) : (\A i \in 1..Len(kept) : f[i] # n) => full[n] \notin valid

\* the record as script initialisation left it: nothing has drawn yet
FreshlyLoaded == pc # "boot" /\ writes = <<>>

C5_ReconcilePrunes ==
    (FreshlyLoaded /\ store.kind = "object") =>
      /\ UnlockedIds(saveData) \subseteq validHeroIds
      /\ DOMAIN saveData.heroLevels \subseteq validHeroIds
      /\ DeletesExactly(StoredList, saveData.unlockedHeroes, validHeroIds)
      /\ \A id \in validHeroIds :
           /\ id \in DOMAIN saveData.heroLevels <=> id \in DOMAIN StoredLevelMap
           /\ id \in DOMAIN StoredLevelMap => saveData.heroLevels[id] = StoredLevelMap[id]

\* a stored record naming a vanished id and a hero without art, between two
\* heroes that are kept
C5_Witness ==
    /\ FreshlyLoaded
    /\ store.kind = "object"
    /\ StoredList = <<"hero_azal", "hero_healer", "hero_fyra">>
    /\ "ghost" \in DOMAIN StoredLevelMap
    /\ saveData.unlockedHeroes = <<"hero_azal", "hero_fyra">>
    /\ DOMAIN saveData.heroLevels = {"hero_azal", "hero_fyra"}

(* C6: the stats of a reveal are hp = baseHP + (level-1)*10,               *)
(* attack = baseAttack + (level-1)*2 and the template's own ultimate       *)
(* threshold, at the new level and, for a repeat draw, at the old one.     *)

StatFormula(stats, data, level) ==
    /\ stats.hp = data.baseHP + (level - 1) * 10
    /\ stats.atk = data.baseAttack + (level - 1) * 2
    /\ stats.ultCharge = data.ultChargeNeeded

C6_StatFormula ==
    currentReveal # Null =>
      /\ currentReveal.level >= 1
      /\ StatFormula(currentReveal.newStats, currentReveal.hero, currentReveal.level)
      /\ currentReveal.oldStats # Null =>
           StatFormula(currentReveal.oldStats, currentReveal.hero,
                       Max(1, currentReveal.level - 1))

\* a reveal of a level at which the threshold would have dropped had it
\* followed the level
C6_Witness ==
    /\ currentReveal # Null
    /\ currentReveal.level = 3
    /\ currentReveal.hero.id = "hero_azal"
    /\ currentReveal.newStats = [hp |-> 110, atk |-> 26, ultCharge |-> 5]
    /\ currentReveal.oldStats = [hp |-> 100, atk |-> 24, ultCharge |-> 5]

(* C7: load raises no error and gives a complete record: the default       *)
(* record when the stored value is absent, unparsable or not an object;    *)
(* for an object, the default for each missing field and the stored value  *)
(* of each field present.                                                  *)

C7_LoadTotal ==
    /\ FreshlyLoaded =>
         /\ ~uncaught
         /\ DOMAIN saveData = Fields
         /\ store.kind # "object" => saveData = DefaultSave
         /\ store.kind = "object" =>
              /\ "unlockedHeroes" \notin DOMAIN store.value => saveData.unlockedHeroes = <<>>
              /\ "heroLevels" \notin DOMAIN store.value => saveData.heroLevels = <<>>
              /\ saveData.demonSouls =
                   IF "demonSouls" \in DOMAIN store.value THEN store.value.demonSouls ELSE 0
    /\ LET l == loadSaveData(store) IN
         /\ ~l.threw
         /\ DOMAIN l.value = Fields
         /\ store.kind = "object" =>
              \A f \in DOMAIN store.value : l.value[f] = store.value[f]

\* the script has loaded a stored value that does not parse
C7_Witness ==
    /\ FreshlyLoaded
    /\ store.kind = "malformed"
    /\ saveData = DefaultSave
    /\ ~uncaught

(* C8: when the store rejects the write of a draw, no error leaves the     *)
(* handler, the record holds the new level, the session is in CARD_REVEAL  *)
(* and the stored document is the one from before the draw.                *)

C8_FailedWriteAbsorbed ==
    [][(DrawStep /\ Last(writes') = "failed") =>
         /\ ~uncaught'
         /\ currentState' = GAME_STATES.CARD_REVEAL
         /\ currentReveal' # Null
         /\ LevelOf(saveData', currentReveal'.hero.id) = currentReveal'.level
         /\ saveData' # saveData
         /\ store' = store]_vars

\* a draw whose write failed: the reveal is up and the store lags the record
C8_Witness ==
    /\ writes # <<>>
    /\ Last(writes) = "failed"
    /\ currentState = GAME_STATES.CARD_REVEAL
    /\ ~uncaught
    /\ store # JSON_stringify(saveData)

(* C9: when writes succeed, after script initialisation and after every    *)
(* event handler the stored document is the in-memory record.              *)

C9_WriteThrough ==
    (pc # "boot" /\ AllWritesOk) => store = JSON_stringify(saveData)

(* C10: persisting a record reached by draws and loading the stored        *)
(* document gives the same unlocked ids in the same order, the same level  *)
(* for every id and the same balance.                                      *)

-----------------------------------------------------------------------------
(* Draw pool and unlock list *)

\* the catalog entries that carry a portrait, read off the catalog itself
PortraitIds == {charactersData[i].id : i \in {j \in 1..Len(charactersData) : charactersData[j].image}}

\* C11: once the record is reconciled, every hero in the unlock list, every
\* key of the level mapping and every revealed hero has a portrait, whatever
\* draws were made
C11_OnlyPortraitHeroes ==
    (pc # "boot" /\ saveData # Undefined) =>
        /\ UnlockedIds(saveData) \subseteq PortraitIds
        /\ DOMAIN saveData.heroLevels \subseteq PortraitIds
        /\ (currentReveal # Null => currentReveal.hero.image)

\* a draw has been made: the revealed hero has a portrait and is the one unlocked hero
C11_Witness ==
    /\ writes # <<>>
    /\ currentReveal # Null
    /\ currentReveal.hero.image
    /\ Includes(saveData.unlockedHeroes, currentReveal.hero.id)
    /\ Len(saveData.unlockedHeroes) = 1

NoDuplicates(list) == \A i, j \in DOMAIN list : i # j => list[i] # list[j]

\* C12: the unlock list of the default record is empty; every draw leaves the
\* list as it was when the drawn hero is already in it and appends the drawn
\* id at the end otherwise; and no step makes a duplicate-free list hold an
\* id twice
C12_UnlockedAppendOnly ==
    [][(pc # "boot" /\ saveData # Undefined) =>
          /\ NoDuplicates(DefaultSave.unlockedHeroes)
          /\ (DrawStep /\ currentReveal' # Null) =>
                LET id == currentReveal'.hero.id IN
                saveData'.unlockedHeroes =
                    IF Includes(saveData.unlockedHeroes, id)
                    THEN saveData.unlockedHeroes
                    ELSE Append(saveData.unlockedHeroes, id)
          /\ NoDuplicates(saveData.unlockedHeroes) => NoDuplicates(saveData'.unlockedHeroes)]_vars

\* the one unlocked hero has been drawn again and is still listed once
C12_Witness ==
    /\ writes # <<>>
    /\ currentReveal # Null
    /\ ~currentReveal.isNew
    /\ saveData.unlockedHeroes = <<currentReveal.hero.id>>

-----------------------------------------------------------------------------
(* Run start *)

\* a step that enters combat
RunStart == currentState # GAME_STATES.COMBAT /\ currentState' = GAME_STATES.COMBAT

\* ids of a party, in order
IdsOf(heroes) == [i \in DOMAIN heroes |-> heroes[i].id]

\* C13: a run that starts with three or more unlocked heroes has the first
\* three of the unlock list as its party, in unlock order; a run that starts
\* with fewer has the first three catalog heroes with a portrait (azal, fyra,
\* lucien), whichever heroes are unlocked
C13_PartySelection ==
    [][RunStart =>
          IdsOf(playerHeroes') =
              IF Len(saveData.unlockedHeroes) >= 3
              THEN <<saveData.unlockedHeroes[1], saveData.unlockedHeroes[2],
                     saveData.unlockedHeroes[3]>>
              ELSE <<"hero_azal", "hero_fyra", "hero_lucien">>]_vars

\* a run started with two unlocked heroes, listed in another order than the
\* party's
C13_Witness ==
    /\ currentState = GAME_STATES.COMBAT
    /\ saveData.unlockedHeroes = <<"hero_fyra", "hero_azal">>
    /\ IdsOf(playerHeroes) = <<"hero_azal", "hero_fyra", "hero_lucien">>

\* the catalog entry of a hero id
TemplateOf(id) == CHOOSE d \in {charactersData[i] : i \in DOMAIN charactersData} : d.id = id

\* C14: every unit of a starting run has the level the record holds for its
\* hero, or 1 when the record holds none; base HP, base attack and threshold
\* of the template scaled to that level; current HP at the scaled HP; and an
\* empty ultimate meter
C14_UnitsAtRunStart ==
    [][RunStart =>
          \A i \in DOMAIN playerHeroes' :
              LET h == playerHeroes'[i]
                  t == TemplateOf(h.id)
                  level == IF h.id \in DOMAIN saveData.heroLevels
                           THEN saveData.heroLevels[h.id] ELSE 1
              IN  /\ h.level = level
                  /\ h.baseHP = t.baseHP + (level - 1) * 10
                  /\ h.baseAttack = t.baseAttack + (level - 1) * 2
                  /\ h.ultChargeNeeded = t.ultChargeNeeded
                  /\ h.currentHP = h.baseHP
                  /\ h.ultMeter = 0]_vars

\* a run whose first unit is at level 2 and whose third has no level recorded
C14_Witness ==
    /\ currentState = GAME_STATES.COMBAT
    /\ Len(playerHeroes) = 3
    /\ playerHeroes[1] = [id |-> "hero_azal", key |-> "y", baseHP |-> 100, baseAttack |-> 24,
                          ultChargeNeeded |-> 5, level |-> 2, currentHP |-> 100, ultMeter |-> 0]
    /\ playerHeroes[3].id = "hero_lucien"
    /\ "hero_lucien" \notin DOMAIN saveData.heroLevels
    /\ playerHeroes[3].level = 1

-----------------------------------------------------------------------------
(* Combat *)

\* the units whose meter went up by one in this step
Attackers == {i \in DOMAIN playerHeroes : playerHeroes'[i].ultMeter = playerHeroes[i].ultMeter + 1}

\* baseAttack times level, summed over the units of S
RECURSIVE SumDamage(_, _)
SumDamage(heroes, S) ==
    IF S = {} THEN 0
    ELSE LET i == CHOOSE x \in S : TRUE IN
         heroes[i].baseAttack * heroes[i].level + SumDamage(heroes, S \ {i})

\* C15: in combat, every attack raises the attacker's meter by one and changes
\* nothing else of the unit, and the enemy's hp drops by the attacker's
\* baseAttack times its level, stopping at 0 (a level-2 unit with baseAttack
\* 20 takes 50 to 10 and 10 to 0)
C15_AttackEffect ==
    [][(currentState = GAME_STATES.COMBAT /\ Len(currentEnemies) > 0) =>
          /\ DOMAIN playerHeroes' = DOMAIN playerHeroes
          /\ \A i \in DOMAIN playerHeroes :
                playerHeroes'[i] = IF i \in Attackers
                                   THEN [playerHeroes[i] EXCEPT !.ultMeter = @ + 1]
                                   ELSE playerHeroes[i]
          /\ currentEnemies' = <<[currentEnemies[1] EXCEPT
                                    !.hp = Max(0, @ - SumDamage(playerHeroes, Attackers))]>>]_vars

\* the level-2 unit with baseAttack 20 has attacked twice, nobody else has,
\* and the enemy that started at 50 is at 0 and no longer alive
C15_Witness ==
    /\ Len(playerHeroes) = 3
    /\ playerHeroes[1].id = "hero_velra"
    /\ playerHeroes[1].level = 2
    /\ playerHeroes[1].baseAttack = 20
    /\ playerHeroes[1].ultMeter = 2
    /\ playerHeroes[2].ultMeter = 0
    /\ playerHeroes[3].ultMeter = 0
    /\ currentEnemies = <<[id |-> "enemy_goblin", hp |-> 0, attackPower |-> 5]>>
    /\ ~Enemy_isAlive(currentEnemies[1])

-----------------------------------------------------------------------------
(* The unit classes on their own: one Hero and one Enemy object, driven by  *)
(* the methods of their classes. The session never calls tryUlt or          *)
(* Hero.takeDamage, so their behaviour is examined here.                    *)

MaxUnitLevel == 2

\* attacks stop raising the meter here; above the largest threshold of the catalog
MaxMeter == 7

\* chargePercent values 0, 0.5 and 1.0, for which the damage is an integer
ChargePercents == {0, 50, 100}

DamageAmounts == {5, 60}

UnitHeroes ==
    {applyLeveledStats([NewHero(charactersData[i]) EXCEPT !.level = l], charactersData[i]) :
        i \in DOMAIN charactersData, l \in 1..MaxUnitLevel}

UnitEnemies == {NewEnemy(enemiesData[i]) : i \in DOMAIN enemiesData}

InitUnit ==
    /\ pc = "unit"
    /\ store = [kind |-> "absent"]
    /\ saveData = DefaultSave
    /\ currentState = GAME_STATES.COMBAT
    /\ currentReveal = Null
    /\ lastGachaResult = Null
    /\ playerHeroes \in {<<h>> : h \in UnitHeroes}
    /\ currentEnemies \in {<<e>> : e \in UnitEnemies}
    /\ keyState = [k \in KeyNames |-> FALSE]
    /\ loopAlive = FALSE
    /\ uncaught = FALSE
    /\ writes = <<>>
    /\ runs = 0

UnitFrame == <<pc, store, saveData, currentState, currentReveal, lastGachaResult,
               keyState, loopAlive, uncaught, writes, runs>>

\* hero.attack(enemy)
UnitAttack ==
    /\ pc = "unit"
    /\ playerHeroes[1].ultMeter < MaxMeter
    /\ LET r == Hero_attack(playerHeroes[1], currentEnemies[1]) IN
       /\ playerHeroes' = <<r.hero>>
       /\ currentEnemies' = <<r.target>>
    /\ UNCHANGED UnitFrame

\* hero.tryUlt(enemy, chargePercent)
UnitTryUlt ==
    /\ pc = "unit"
    /\ \E pct \in ChargePercents :
          LET r == Hero_tryUlt(playerHeroes[1], currentEnemies[1], pct) IN
          /\ playerHeroes' = <<r.hero>>
          /\ currentEnemies' = <<r.target>>
    /\ UNCHANGED UnitFrame

\* hero.takeDamage(amount)
UnitTakeDamage ==
    /\ pc = "unit"
    /\ \E amount \in DamageAmounts :
          playerHeroes' = <<Hero_takeDamage(playerHeroes[1], amount)>>
    /\ UNCHANGED currentEnemies
    /\ UNCHANGED UnitFrame

\* a fresh target: new Enemy(data)
UnitNewEnemy ==
    /\ pc = "unit"
    /\ \E e \in UnitEnemies : currentEnemies' = <<e>>
    /\ UNCHANGED playerHeroes
    /\ UNCHANGED UnitFrame

NextUnit == UnitAttack \/ UnitTryUlt \/ UnitTakeDamage \/ UnitNewEnemy

UnitSpec == InitUnit /\ [][NextUnit]_vars

\* C16: an ultimate tried below the threshold changes neither the meter nor
\* the target; tried at or above the threshold it empties the meter and
\* lowers the target's hp by baseAttack * 2 * level * chargePercent, stopping
\* at 0; and the meter never drops in any other way
C16_UltGating ==
    /\ [](pc = "unit" =>
            \A pct \in ChargePercents :
                LET h == playerHeroes[1]
                    e == currentEnemies[1]
                    r == Hero_tryUlt(h, e, pct)
                IN  /\ h.ultMeter < h.ultChargeNeeded => (r.hero = h /\ r.target = e)
                    /\ h.ultMeter >= h.ultChargeNeeded =>
                          /\ r.hero = [h EXCEPT !.ultMeter = 0]
                          /\ r.target.id = e.id
                          /\ 100 * r.target.hp =
                                Max(0, 100 * e.hp - h.baseAttack * 2 * h.level * pct))
    /\ [][(pc = "unit" /\ playerHeroes'[1].ultMeter < playerHeroes[1].ultMeter) =>
            LET h == playerHeroes[1]
                e == currentEnemies[1]
            IN  /\ h.ultMeter >= h.ultChargeNeeded
                /\ playerHeroes' = <<[h EXCEPT !.ultMeter = 0]>>
                /\ \E pct \in ChargePercents :
                      100 * currentEnemies'[1].hp =
                          Max(0, 100 * e.hp - h.baseAttack * 2 * h.level * pct)]_vars

\* azal at level 1 (attack 22, threshold 5) has used a full ultimate on a
\* fresh orc: 80 - 44 = 36 and the meter is empty
C16_Witness ==
    /\ pc = "unit"
    /\ playerHeroes[1].id = "hero_azal"
    /\ playerHeroes[1].level = 1
    /\ playerHeroes[1].ultMeter = 0
    /\ currentEnemies[1] = [id |-> "enemy_orc", hp |-> 36, attackPower |-> 8]

-----------------------------------------------------------------------------
(* Combat of the session, continued *)

\* the catalog entry of an enemy id
EnemyTemplateOf(id) == CHOOSE d \in {enemiesData[i] : i \in DOMAIN enemiesData} : d.id = id

\* C17: taking damage leaves max(0, hp - amount); whenever units exist the
\* enemy's hp lies between 0 and its template's hp and every hero's current
\* HP between 0 and its leveled HP; and within a run the enemy's hp never
\* rises
C17_HpBounds ==
    /\ [](Len(currentEnemies) > 0 =>
            LET e == currentEnemies[1] IN
            /\ e.hp \in 0..EnemyTemplateOf(e.id).hp
            /\ \A amount \in DamageAmounts :
                  Enemy_takeDamage(e, amount) = [e EXCEPT !.hp = Max(0, e.hp - amount)]
            /\ \A i \in DOMAIN playerHeroes :
                  LET h == playerHeroes[i] IN
                  /\ h.baseHP = TemplateOf(h.id).baseHP + (h.level - 1) * 10
                  /\ h.currentHP \in 0..h.baseHP
                  /\ \A amount \in DamageAmounts :
                        Hero_takeDamage(h, amount) =
                            [h EXCEPT !.currentHP = Max(0, h.currentHP - amount)])
    /\ [][currentState = GAME_STATES.COMBAT =>
            /\ Len(currentEnemies') = Len(currentEnemies)
            /\ currentEnemies'[1].hp <= currentEnemies[1].hp]_vars

\* two attacks of 48 on the enemy of 50: the second one stops at 0
C17_Witness ==
    /\ Len(playerHeroes) = 3
    /\ playerHeroes[1].id = "hero_azal"
    /\ playerHeroes[1].baseAttack * playerHeroes[1].level = 48
    /\ playerHeroes[1].ultMeter = 2
    /\ playerHeroes[2].ultMeter = 0
    /\ playerHeroes[3].ultMeter = 0
    /\ currentEnemies[1].hp = 0

\* C18: in combat the pressed flag of a party hero's key is cleared only by
\* that hero's attack and every attack clears it: a press stays pending until
\* the tick that turns it into exactly one attack
C18_EdgeTriggered ==
    [][currentState = GAME_STATES.COMBAT =>
          \A i \in DOMAIN playerHeroes :
              LET k == playerHeroes[i].key IN
              /\ (keyState[k] /\ ~keyState'[k]) => i \in Attackers
              /\ i \in Attackers => (keyState[k] /\ ~keyState'[k])]_vars

\* C19: the session is never in COMBAT with its enemy at hp 0; it leaves
\* COMBAT only for MENU, only in a tick that ends with the enemy at hp 0, and
\* in that tick every hero whose key is pressed still makes its attack
C19_WinDetection ==
    /\ []((currentState = GAME_STATES.COMBAT /\ Len(currentEnemies) > 0) =>
            currentEnemies[1].hp > 0)
    /\ [][(currentState = GAME_STATES.COMBAT /\ currentState' # GAME_STATES.COMBAT) =>
            /\ currentState' = GAME_STATES.MENU
            /\ Len(currentEnemies') > 0
            /\ currentEnemies'[1].hp = 0
            /\ \A i \in DOMAIN playerHeroes :
                  keyState[playerHeroes[i].key] => i \in Attackers]_vars

\* back in the menu after a win in which the third hero attacked although
\* the first one's attack had already brought the enemy to 0
C19_Witness ==
    /\ currentState = GAME_STATES.MENU
    /\ Len(playerHeroes) = 3
    /\ playerHeroes[1].id = "hero_velra"
    /\ playerHeroes[1].ultMeter = 2
    /\ playerHeroes[3].id = "hero_azal"
    /\ playerHeroes[3].ultMeter = 1
    /\ currentEnemies[1].hp = 0

\* C20: no step taken in COMBAT or CARD_REVEAL changes the in-memory save
\* record or the stored document, and whatever a step writes to the store is
\* the serialized save record, with nothing of the units in it
C20_SaveOnlyByDraw ==
    [][/\ (currentState \in {GAME_STATES.COMBAT, GAME_STATES.CARD_REVEAL}) =>
             (saveData' = saveData /\ store' = store)
       /\ (pc # "boot" /\ store' # store) =>
             (DrawStep /\ store' = JSON_stringify(saveData'))]_vars

\* the draw key has been pressed during a run, after an attack, and there is
\* still no save record in the store
C20_Witness ==
    /\ currentState = GAME_STATES.COMBAT
    /\ keyState["g"]
    /\ currentEnemies[1].hp < 50
    /\ writes = <<>>
    /\ store = [kind |-> "absent"]
    /\ saveData = DefaultSave

-----------------------------------------------------------------------------
(* Runs *)

\* C21: every unit's current HP is the leveled HP of its hero, in every
\* state; no step taken in COMBAT changes a unit's current or base HP; and
\* the session leaves COMBAT only with the enemy at hp 0, whatever the
\* party's state
C21_NoRetaliation ==
    /\ [](\A i \in DOMAIN playerHeroes :
             LET h == playerHeroes[i] IN
             h.currentHP = TemplateOf(h.id).baseHP + (h.level - 1) * 10)
    /\ [][currentState = GAME_STATES.COMBAT =>
            /\ DOMAIN playerHeroes' = DOMAIN playerHeroes
            /\ \A i \in DOMAIN playerHeroes :
                  /\ playerHeroes'[i].currentHP = playerHeroes[i].currentHP
                  /\ playerHeroes'[i].baseHP = playerHeroes[i].baseHP
            /\ currentState' # GAME_STATES.COMBAT => currentEnemies'[1].hp = 0]_vars

\* a run in which the first hero has attacked, the enemy is alive and the
\* hero is still at full HP
C21_Witness ==
    /\ currentState = GAME_STATES.COMBAT
    /\ Len(playerHeroes) = 3
    /\ playerHeroes[1].ultMeter = 1
    /\ playerHeroes[1].currentHP = playerHeroes[1].baseHP
    /\ currentEnemies[1].hp \in 1..49

\* C22: every step that starts a run leaves exactly one enemy, the first
\* template of the catalog (the goblin) at its template hp of 50, and a party
\* of units with empty meters and full HP, whatever the units were before
C22_FreshUnits ==
    [][RunStart =>
          /\ currentEnemies' = <<[id |-> "enemy_goblin", hp |-> 50, attackPower |-> 5]>>
          /\ currentEnemies'[1].id = enemiesData[1].id
          /\ Len(playerHeroes') = 3
          /\ \A i \in DOMAIN playerHeroes' :
                /\ playerHeroes'[i].ultMeter = 0
                /\ playerHeroes'[i].currentHP = playerHeroes'[i].baseHP]_vars

\* a second run has started after one that was won: the enemy is back at 50
\* and no meter is above 0
C22_Witness ==
    /\ runs = 2
    /\ currentState = GAME_STATES.COMBAT
    /\ currentEnemies = <<[id |-> "enemy_goblin", hp |-> 50, attackPower |-> 5]>>
    /\ \A i \in DOMAIN playerHeroes : playerHeroes[i].ultMeter = 0

-----------------------------------------------------------------------------
(* Screens *)

\* C23: the key event that leaves CARD_REVEAL (the Enter key-down) records
\* the dismissed reveal as the last draw result, clears the current reveal
\* and ends in MENU, without starting a run
C23_DismissReturnsToMenu ==
    [][(/\ currentState = GAME_STATES.CARD_REVEAL
        /\ currentState' # GAME_STATES.CARD_REVEAL
        /\ pc' = pc) =>
          /\ currentReveal # Null
          /\ lastGachaResult' = [hero |-> currentReveal.hero,
                                 level |-> currentReveal.level,
                                 isNew |-> currentReveal.isNew]
          /\ currentReveal' = Null
          /\ currentState' = GAME_STATES.MENU
          /\ UNCHANGED <<playerHeroes, currentEnemies>>]_vars

\* C24: once the frame loop has been started it stays scheduled: no frame
\* ends with an error, in any state of the session
C24_LoopNeverStops == pc = "running" => (loopAlive /\ ~uncaught)

\* C25: when a run starts no press is pending for any hero of its party, so
\* an attack in the run can only come from a key pressed after the start
C25_NoPendingInput ==
    [][RunStart => \A i \in DOMAIN playerHeroes' : ~keyState'[playerHeroes'[i].key]]_vars

-----------------------------------------------------------------------------
(* Progress of a run. Frames are periodic, so a frame that finds a pressed  *)
(* key is not postponed forever; and the player of the claim keeps pressing *)
(* keys of the party.                                                       *)

\* the keys of the player who only fights: start and the two hero keys
CombatKeys == {"Enter", "y", "p"}

\* a key-down, during a run, that sets the flag of a party hero's key
HeroPressOf(keys) ==
    /\ currentState = GAME_STATES.COMBAT
    /\ KeyDown(keys)
    /\ \E i \in DOMAIN playerHeroes :
          ~keyState[playerHeroes[i].key] /\ keyState'[playerHeroes[i].key]

HeroPress == HeroPressOf(CombatKeys)

NextLive == ScriptLoad \/ WindowOnload \/ KeyDown(CombatKeys) \/ KeyUp(CombatKeys) \/ GameLoop

LiveSpec == Init /\ [][NextLive]_vars /\ SF_vars(GameLoop) /\ SF_vars(HeroPress)

\* a press is pending for some hero of the party
PressPending == \E i \in DOMAIN playerHeroes : keyState[playerHeroes[i].key]

-----------------------------------------------------------------------------
(* Persistence over several draws: the player of the menu, with room for a  *)
(* failed write to be followed by further draws.                            *)

NextRepair ==
    \/ ScriptLoad
    \/ WindowOnload
    \/ KeyDownUpTo(MenuKeys, MaxRepairDraws)
    \/ KeyUp(MenuKeys)
    \/ GameLoop

RepairSpec == Init /\ [][NextRepair]_vars

\* C27: whenever the write of the latest draw succeeded, the stored document
\* is the whole in-memory record, whatever happened to the writes of the
\* draws before it
C27_LaterWriteRepairs ==
    (pc # "boot" /\ writes # <<>> /\ Last(writes) = "ok") => store = JSON_stringify(saveData)

\* no stored document; a first draw of azal whose write failed, a second one
\* whose write succeeded: the store holds level 2
C27_Witness ==
    /\ writes = <<"failed", "ok">>
    /\ saveData.unlockedHeroes = <<"hero_azal">>
    /\ saveData.heroLevels["hero_azal"] = 2
    /\ store = [kind |-> "object",
                value |-> [unlockedHeroes |-> <<"hero_azal">>,
                           heroLevels |-> [hero_azal |-> 2],
                           demonSouls |-> 0]]

-----------------------------------------------------------------------------
(* Session states *)

\* C28: the session state is always MENU, CARD_REVEAL or COMBAT; a reveal is
\* current exactly in CARD_REVEAL; and every event that makes a draw or
\* starts a run finds the session in MENU
C28_SessionStates ==
    /\ [](/\ currentState \in {GAME_STATES.MENU, GAME_STATES.CARD_REVEAL, GAME_STATES.COMBAT}
          /\ (currentReveal # Null) <=> (currentState = GAME_STATES.CARD_REVEAL))
    /\ [][/\ DrawStep => currentState = GAME_STATES.MENU
          /\ RunStart => currentState = GAME_STATES.MENU]_vars

-----------------------------------------------------------------------------
(* Ultimate meters of the session: the player who fights with the two      *)
(* weakest heroes of the parties, whose attacks the enemy survives longest. *)

MeterKeys == {"Enter", "u", "o"}

MeterPress == HeroPressOf(MeterKeys)

NextMeter == ScriptLoad \/ WindowOnload \/ KeyDown(MeterKeys) \/ KeyUp(MeterKeys) \/ GameLoop

MeterSpec == Init /\ [][NextMeter]_vars /\ SF_vars(GameLoop) /\ SF_vars(MeterPress)

-----------------------------------------------------------------------------
(* Reveal and run *)

\* the unit has the stats the reveal reports
MatchesReveal(h, reveal) ==
    /\ h.level = reveal.level
    /\ h.baseHP = reveal.newStats.hp
    /\ h.baseAttack = reveal.newStats.atk
    /\ h.ultChargeNeeded = reveal.newStats.ultCharge

\* C30: while a reveal is current, the run that would start from the record
\* as it is gives the revealed hero's unit the level and the newStats of the
\* reveal; and so does every run that does start from a reveal
C30_ReportedStatsMatch ==
    /\ [](currentReveal # Null =>
            LET s == startNewRun(Globals) IN
            \A i \in DOMAIN s.playerHeroes :
                s.playerHeroes[i].id = currentReveal.hero.id =>
                    MatchesReveal(s.playerHeroes[i], currentReveal))
    /\ [][(RunStart /\ currentReveal # Null) =>
            \A i \in DOMAIN playerHeroes' :
                playerHeroes'[i].id = currentReveal.hero.id =>
                    MatchesReveal(playerHeroes'[i], currentReveal)]_vars

\* velra was revealed at level 3 and leads the run that followed with 120 HP,
\* 22 attack and threshold 5
C30_Witness ==
    /\ currentState = GAME_STATES.COMBAT
    /\ lastGachaResult # Null
    /\ lastGachaResult.hero.id = "hero_velra"
    /\ lastGachaResult.level = 3
    /\ Len(playerHeroes) = 3
    /\ playerHeroes[1].id = "hero_velra"
    /\ playerHeroes[1].level = 3
    /\ playerHeroes[1].baseHP = 120
    /\ playerHeroes[1].baseAttack = 22
    /\ playerHeroes[1].ultChargeNeeded = 5

====
